---- MODULE Spec2Model ----
(***************************************************************************)
(* Model of parrator/tray_app.py: ParratorTrayApp.                         *)
(*                                                                         *)
(* Threads of the program:                                                 *)
(*   - the main thread runs start(): spawns the model-load thread, builds  *)
(*     the tray icon, registers the hotkey and then runs the tray loop;    *)
(*     the tray loop executes the "Toggle Recording" menu callback;        *)
(*   - the hotkey listener thread executes the hotkey callback;            *)
(*   - the load thread executes load_model();                              *)
(*   - one daemon thread per _process_audio_async call executes process(). *)
(* The program takes no lock, so the threads interleave between the reads  *)
(* and writes of the shared attributes is_recording, model_loaded and      *)
(* tray_icon.title.  Every action below is one such read or write (or one  *)
(* call of a collaborator), labelled with the source line it models.       *)
(* _update_tray_icon is taken as one step.                                 *)
(***************************************************************************)
EXTENDS Integers, FiniteSets, Sequences, TLC

\* Bound on the number of _toggle_recording invocations in a behaviour.
MaxToggles == 4

\* Bound on the number of _toggle_recording invocations in a behaviour in
\* which the invocations of the two callers may overlap.
MaxRacingToggles == 3

\* The two callers of _toggle_recording (menu item l.86, hotkey l.109).
Threads == {"hotkey", "menu"}

\* Background process() threads are numbered in spawn order.
TaskIds == 1..MaxToggles

\* Values AudioRecorder.stop_recording() can return (l.143).
StopResults == {"None", "Empty", "Data"}

\* Results of Transcriber.transcribe_file (l.161): (True, text),
\* (True, ""), (False, _) or an exception.
TranscribeResults == {"ok", "empty", "fail", "raise"}

\* Path returned by save_temp_audio for the k-th background thread (l.155).
TempPath(k) == 100 + k

\* Text returned by transcribe_file for the file at path p (l.161).
TranscribeOut(p) == 1000 + 2 * p

NoText == 0

VARIABLES
    mainpc,        \* position of the main thread in start()
    loadpc,        \* position of the load_model thread
    model_loaded,  \* self.model_loaded
    is_recording,  \* self.is_recording
    title,         \* self.tray_icon.title ("NoIcon" while tray_icon is None)
    pc,            \* position of each _toggle_recording caller
    toggles,       \* number of _toggle_recording invocations so far
    capturing,     \* recorder: a start_recording() succeeded and no stop_recording() since
    lastStart,     \* result of the latest start_recording() call
    session,       \* number of successful start_recording() calls
    stopsInSession,\* stop_recording() calls since the latest successful start
    spawnsInSession,\* process() threads spawned since the latest successful start
    nextTask,      \* number of process() threads spawned so far
    task,          \* state of each process() thread
    clipboard,     \* content of the system clipboard
    hotkeyStops,   \* number of hotkey_manager.stop() calls
    recorderCleanups \* number of audio_recorder.cleanup() calls

vars == <<mainpc, loadpc, model_loaded, is_recording, title, pc, toggles,
          capturing, lastStart, session, stopsInSession, spawnsInSession,
          nextTask, task, clipboard, hotkeyStops, recorderCleanups>>

recorderVars == <<capturing, lastStart, session, stopsInSession, spawnsInSession>>
taskVars == <<nextTask, task, clipboard>>
loadVars == <<mainpc, loadpc, model_loaded>>
shutdownVars == <<hotkeyStops, recorderCleanups>>

NoTask ==
    [pc |-> "none", session |-> 0, audio |-> "None", saved |-> FALSE,
     tr |-> "none", text |-> NoText, removed |-> FALSE,
     copied |-> NoText, auto |-> FALSE,
     pasteTried |-> FALSE, pasted |-> NoText]

\* __init__, l.26-35
Init ==
    /\ mainpc = "load_spawn"
    /\ loadpc = "none"
    /\ model_loaded = FALSE
    /\ is_recording = FALSE
    /\ title = "NoIcon"
    /\ pc = [t \in Threads |-> "idle"]
    /\ toggles = 0
    /\ capturing = FALSE
    /\ lastStart = "none"
    /\ session = 0
    /\ stopsInSession = 0
    /\ spawnsInSession = 0
    /\ nextTask = 0
    /\ task = [k \in TaskIds |-> NoTask]
    /\ clipboard = NoText
    /\ hotkeyStops = 0
    /\ recorderCleanups = 0

\* _update_tray_icon, l.207-217: the title it writes, given the current
\* title (unchanged while tray_icon is None).
TrayTitle(cur, rec, loaded) ==
    IF cur = "NoIcon" THEN cur
    ELSE IF rec THEN "Recording"
    ELSE IF loaded THEN "Ready"
    ELSE "Loading"

----------------------------------------------------------------------------
\* Main thread: start(), l.37-54

\* l.42, l.70-71: spawn the load thread
StartLoadThread ==
    /\ mainpc = "load_spawn"
    /\ mainpc' = "setup_tray"
    /\ loadpc' = "load"
    /\ UNCHANGED <<shutdownVars, model_loaded, is_recording, title, pc, toggles,
                   recorderVars, taskVars>>

\* l.45, l.73-103: create the icon with title "Parrator - Loading..."
SetupTray ==
    /\ mainpc = "setup_tray"
    /\ mainpc' = "setup_hotkeys"
    /\ title' = "Loading"
    /\ UNCHANGED <<shutdownVars, loadpc, model_loaded, is_recording, pc, toggles,
                   recorderVars, taskVars>>

\* l.48, l.105-112: register the hotkey; l.54: enter the tray loop
SetupHotkeys ==
    /\ mainpc = "setup_hotkeys"
    /\ mainpc' = "run"
    /\ UNCHANGED <<shutdownVars, loadpc, model_loaded, is_recording, title, pc, toggles,
                   recorderVars, taskVars>>

\* cleanup, l.264-269: hotkey_manager and audio_recorder are never reset to
\* None, so each call stops the hotkey listener and cleans up the recorder
Cleanup ==
    /\ hotkeyStops' = hotkeyStops + 1
    /\ recorderCleanups' = recorderCleanups + 1

\* _quit_application, l.249-253: the Quit menu item, run by the tray loop:
\* cleanup(), then tray_icon.stop()
QuitApplication ==
    /\ mainpc = "run"
    /\ pc["menu"] = "idle"
    /\ Cleanup
    /\ mainpc' = "stopping"
    /\ UNCHANGED <<loadpc, model_loaded, is_recording, title, pc, toggles,
                   recorderVars, taskVars>>

\* l.54: tray_icon.run() returns after tray_icon.stop()
RunReturns ==
    /\ mainpc = "stopping"
    /\ mainpc' = "finally"
    /\ UNCHANGED <<shutdownVars, loadpc, model_loaded, is_recording, title, pc, toggles,
                   recorderVars, taskVars>>

\* l.55-56: tray_icon.run() is left by a KeyboardInterrupt
RunInterrupted ==
    /\ mainpc = "run"
    /\ pc["menu"] = "idle"
    /\ mainpc' = "finally"
    /\ UNCHANGED <<shutdownVars, loadpc, model_loaded, is_recording, title, pc, toggles,
                   recorderVars, taskVars>>

\* l.57-58: finally: cleanup(); start() returns and the process exits
FinalCleanup ==
    /\ mainpc = "finally"
    /\ Cleanup
    /\ mainpc' = "exited"
    /\ UNCHANGED <<loadpc, model_loaded, is_recording, title, pc, toggles,
                   recorderVars, taskVars>>

----------------------------------------------------------------------------
\* Load thread: load_model(), l.62-68

\* l.63: transcriber.load_model() returns True or False
LoadModel ==
    /\ loadpc = "load"
    /\ \E ok \in BOOLEAN : loadpc' = IF ok THEN "set" ELSE "failed"
    /\ UNCHANGED <<shutdownVars, mainpc, model_loaded, is_recording, title, pc, toggles,
                   recorderVars, taskVars>>

\* l.64
LoadSet ==
    /\ loadpc = "set"
    /\ model_loaded' = TRUE
    /\ loadpc' = "update"
    /\ UNCHANGED <<shutdownVars, mainpc, is_recording, title, pc, toggles,
                   recorderVars, taskVars>>

\* l.65
LoadUpdate ==
    /\ loadpc = "update"
    /\ title' = TrayTitle(title, is_recording, model_loaded)
    /\ loadpc' = "done"
    /\ UNCHANGED <<shutdownVars, mainpc, model_loaded, is_recording, pc, toggles,
                   recorderVars, taskVars>>

----------------------------------------------------------------------------
\* _toggle_recording, l.114-123

\* A caller can run once its callback is registered: the hotkey after
\* _setup_hotkeys (l.48), the menu item once the tray loop runs (l.54).
CanCall(t) == mainpc = "run"

\* Mutant of AfterModelCheck: the test of l.116 is missing.
AfterModelCheck_NoGuard(loaded) == "t120"

\* l.116: where the caller goes after reading model_loaded
AfterModelCheck(loaded) == IF loaded THEN "t120" ELSE "idle"

\* l.116-118: invocation; returns at once when the model is not loaded
ToggleCheckModel(t) ==
    /\ CanCall(t)
    /\ pc[t] = "idle"
    /\ toggles < MaxToggles
    /\ toggles' = toggles + 1
    /\ pc' = [pc EXCEPT ![t] = AfterModelCheck(model_loaded)]
    /\ UNCHANGED <<shutdownVars, loadVars, is_recording, title, recorderVars, taskVars>>

\* l.120: where the caller goes after reading is_recording
AfterRecordingCheck(rec) == IF rec THEN "t139" ELSE "t128"

\* l.120-123
ToggleCheckRecording(t) ==
    /\ pc[t] = "t120"
    /\ pc' = [pc EXCEPT ![t] = AfterRecordingCheck(is_recording)]
    /\ UNCHANGED <<shutdownVars, loadVars, is_recording, title, toggles, recorderVars, taskVars>>

----------------------------------------------------------------------------
\* _start_recording, l.125-134

\* l.128
StartSet(t) ==
    /\ pc[t] = "t128"
    /\ is_recording' = TRUE
    /\ pc' = [pc EXCEPT ![t] = "t129"]
    /\ UNCHANGED <<shutdownVars, loadVars, title, toggles, recorderVars, taskVars>>

\* l.129
StartUpdate(t) ==
    /\ pc[t] = "t129"
    /\ title' = TrayTitle(title, is_recording, model_loaded)
    /\ pc' = [pc EXCEPT ![t] = "t131"]
    /\ UNCHANGED <<shutdownVars, loadVars, is_recording, toggles, recorderVars, taskVars>>

\* l.131: audio_recorder.start_recording() returns True or False
StartCall(t) ==
    /\ pc[t] = "t131"
    /\ \E ok \in BOOLEAN :
         /\ lastStart' = IF ok THEN "ok" ELSE "fail"
         /\ capturing' = (capturing \/ ok)
         /\ session' = IF ok THEN session + 1 ELSE session
         /\ stopsInSession' = IF ok THEN 0 ELSE stopsInSession
         /\ spawnsInSession' = IF ok THEN 0 ELSE spawnsInSession
         /\ pc' = [pc EXCEPT ![t] = IF ok THEN "idle" ELSE "t133"]
    /\ UNCHANGED <<shutdownVars, loadVars, is_recording, title, toggles, taskVars>>

\* Mutant of StartRollback: the rollback clears the wrong flag.
StartRollback_ClearsModelFlag(t) ==
    /\ pc[t] = "t133"
    /\ model_loaded' = FALSE
    /\ pc' = [pc EXCEPT ![t] = "t134"]
    /\ UNCHANGED <<shutdownVars, mainpc, loadpc, is_recording, title, toggles,
                   recorderVars, taskVars>>

\* l.133
StartRollback(t) ==
    /\ pc[t] = "t133"
    /\ is_recording' = FALSE
    /\ pc' = [pc EXCEPT ![t] = "t134"]
    /\ UNCHANGED <<shutdownVars, loadVars, title, toggles, recorderVars, taskVars>>

\* l.134
StartRollbackUpdate(t) ==
    /\ pc[t] = "t134"
    /\ title' = TrayTitle(title, is_recording, model_loaded)
    /\ pc' = [pc EXCEPT ![t] = "idle"]
    /\ UNCHANGED <<shutdownVars, loadVars, is_recording, toggles, recorderVars, taskVars>>

----------------------------------------------------------------------------
\* _stop_recording, l.136-148

\* l.139
StopSet(t) ==
    /\ pc[t] = "t139"
    /\ is_recording' = FALSE
    /\ pc' = [pc EXCEPT ![t] = "t140"]
    /\ UNCHANGED <<shutdownVars, loadVars, title, toggles, recorderVars, taskVars>>

\* l.140
StopUpdate(t) ==
    /\ pc[t] = "t140"
    /\ title' = TrayTitle(title, is_recording, model_loaded)
    /\ pc' = [pc EXCEPT ![t] = "t143"]
    /\ UNCHANGED <<shutdownVars, loadVars, is_recording, toggles, recorderVars, taskVars>>

\* l.145: is a process() thread spawned for this stop_recording() result?
SpawnsTask(audio) == audio # "None"

\* Mutant of StopCall: process() is called by the toggle instead of being
\* started as a thread, so the toggle itself saves the file.
StopCall_Inline(t) ==
    /\ pc[t] = "t143"
    /\ \E audio \in StopResults :
         /\ capturing' = FALSE
         /\ stopsInSession' = stopsInSession + 1
         /\ IF SpawnsTask(audio)
              THEN /\ nextTask' = nextTask + 1
                   /\ spawnsInSession' = spawnsInSession + 1
                   /\ task' = [task EXCEPT ![nextTask + 1] =
                                 [NoTask EXCEPT !.pc = "transcribe",
                                                !.saved = TRUE,
                                                !.session = session,
                                                !.audio = audio]]
              ELSE UNCHANGED <<nextTask, spawnsInSession, task>>
    /\ pc' = [pc EXCEPT ![t] = "idle"]
    /\ UNCHANGED <<shutdownVars, loadVars, is_recording, title, toggles, lastStart, session,
                   clipboard>>

\* l.143-148, l.150-151, l.177-178: audio_recorder.stop_recording(), then
\* _process_audio_async spawns a process() thread unless the result is None
StopCall(t) ==
    /\ pc[t] = "t143"
    /\ \E audio \in StopResults :
         /\ capturing' = FALSE
         /\ stopsInSession' = stopsInSession + 1
         /\ IF SpawnsTask(audio)
              THEN /\ nextTask' = nextTask + 1
                   /\ spawnsInSession' = spawnsInSession + 1
                   /\ task' = [task EXCEPT ![nextTask + 1] =
                                 [NoTask EXCEPT !.pc = "save",
                                                !.session = session,
                                                !.audio = audio]]
              ELSE UNCHANGED <<nextTask, spawnsInSession, task>>
    /\ pc' = [pc EXCEPT ![t] = "idle"]
    /\ UNCHANGED <<shutdownVars, loadVars, is_recording, title, toggles, lastStart, session,
                   clipboard>>

----------------------------------------------------------------------------
\* process(), l.152-175

\* l.155-158: save_temp_audio returns a path, returns nothing, or raises
\* (l.174 catches); the last two end the thread
TaskSave(k) ==
    /\ task[k].pc = "save"
    /\ \E ok \in BOOLEAN :
         task' = [task EXCEPT ![k].saved = ok,
                              ![k].pc = IF ok THEN "transcribe" ELSE "done"]
    /\ UNCHANGED <<shutdownVars, loadVars, is_recording, title, pc, toggles, recorderVars,
                   nextTask, clipboard>>

\* Mutant of AfterTranscribe: no handler at l.174, the exception leaves
\* process().
AfterTranscribe_NoHandler(r) == IF r = "raise" THEN "fault" ELSE "remove"

\* l.161: where process() continues after transcribe_file; an exception
\* leaves the try block for the handler at l.174
AfterTranscribe(r) == IF r = "raise" THEN "done" ELSE "remove"

\* l.161
TaskTranscribe(k) ==
    /\ task[k].pc = "transcribe"
    /\ \E r \in TranscribeResults :
         task' = [task EXCEPT ![k].tr = r,
                              ![k].text = IF r = "ok"
                                            THEN TranscribeOut(TempPath(k))
                                            ELSE NoText,
                              ![k].pc = AfterTranscribe(r)]
    /\ UNCHANGED <<shutdownVars, loadVars, is_recording, title, pc, toggles, recorderVars,
                   nextTask, clipboard>>

\* l.169: is the result handed to _handle_transcription_result?
Delivers(r, text) == r = "ok" /\ text # NoText

\* Mutant of AfterRemove: no handler at l.166-167, the exception raised by
\* os.remove goes to the handler of l.174 and ends process().
AfterRemove_Propagates(rmOk) == IF rmOk THEN "t169" ELSE "done"

\* l.164-167: where process() is after os.remove: at l.169 in both cases,
\* an exception raised by os.remove being swallowed at l.166-167.  The two
\* positions record how the removal went.
AfterRemove(rmOk) == IF rmOk THEN "t169" ELSE "t169_rm_failed"

\* l.164-167: os.remove succeeds or raises
TaskRemove(k) ==
    /\ task[k].pc = "remove"
    /\ \E rmOk \in BOOLEAN :
         task' = [task EXCEPT ![k].removed = TRUE,
                              ![k].pc = AfterRemove(rmOk)]
    /\ UNCHANGED <<shutdownVars, loadVars, is_recording, title, pc, toggles, recorderVars,
                   nextTask, clipboard>>

\* l.169-172: where process() continues after the test of l.169
AfterResultCheck(r, text) == IF Delivers(r, text) THEN "copy" ELSE "done"

\* l.169-172
TaskCheckResult(k) ==
    /\ task[k].pc \in {"t169", "t169_rm_failed"}
    /\ task' = [task EXCEPT ![k].pc = AfterResultCheck(task[k].tr, task[k].text)]
    /\ UNCHANGED <<shutdownVars, loadVars, is_recording, title, pc, toggles, recorderVars,
                   nextTask, clipboard>>

\* Values the configuration can hold for 'auto_paste' (l.191).
AutoPasteValues == {"absent", "on", "off"}

\* l.191: config.get('auto_paste', True)
AutoPasteEnabled(v) == IF v = "absent" THEN TRUE ELSE v = "on"

\* Mutant of AfterCopy: the test of l.191 is missing.
AfterCopy_IgnoresOption(copyOk, enabled) == IF copyOk THEN "paste" ELSE "done"

\* l.187-192: where _handle_transcription_result continues after
\* pyperclip.copy (an exception raised by it is caught at l.194) and the
\* test of l.191
AfterCopy(copyOk, enabled) == IF copyOk /\ enabled THEN "paste" ELSE "done"

\* _handle_transcription_result, l.185-195: pyperclip.copy(text) succeeds or
\* raises (caught at l.194); then config.get('auto_paste', True) is read,
\* once; the record keeps the value it returned
TaskCopy(k) ==
    /\ task[k].pc = "copy"
    /\ \/ /\ clipboard' = task[k].text
          /\ \E v \in AutoPasteValues :
               task' = [task EXCEPT ![k].copied = task[k].text,
                                    ![k].auto = AutoPasteEnabled(v),
                                    ![k].pc = AfterCopy(TRUE, AutoPasteEnabled(v))]
       \/ /\ task' = [task EXCEPT ![k].pc = AfterCopy(FALSE, FALSE)]
          /\ UNCHANGED clipboard
    /\ UNCHANGED <<shutdownVars, loadVars, is_recording, title, pc, toggles, recorderVars,
                   nextTask>>

\* _auto_paste, l.197-205: after the sleep, ctrl+v pastes the content the
\* clipboard has then, or the call raises (caught at l.204)
TaskPaste(k) ==
    /\ task[k].pc = "paste"
    /\ \E ok \in BOOLEAN :
         task' = [task EXCEPT ![k].pasteTried = TRUE,
                              ![k].pasted = IF ok THEN clipboard ELSE NoText,
                              ![k].pc = "done"]
    /\ UNCHANGED <<shutdownVars, loadVars, is_recording, title, pc, toggles, recorderVars,
                   nextTask, clipboard>>

----------------------------------------------------------------------------
\* The steps of the threads other than the invocation of _toggle_recording
\* and the shutdown.
Step ==
    \/ StartLoadThread
    \/ SetupTray
    \/ SetupHotkeys
    \/ LoadModel
    \/ LoadSet
    \/ LoadUpdate
    \/ \E t \in Threads : ToggleCheckRecording(t)
    \/ \E t \in Threads : StartSet(t)
    \/ \E t \in Threads : StartUpdate(t)
    \/ \E t \in Threads : StartCall(t)
    \/ \E t \in Threads : StartRollback(t)
    \/ \E t \in Threads : StartRollbackUpdate(t)
    \/ \E t \in Threads : StopSet(t)
    \/ \E t \in Threads : StopUpdate(t)
    \/ \E t \in Threads : StopCall(t)
    \/ \E k \in TaskIds : TaskSave(k)
    \/ \E k \in TaskIds : TaskTranscribe(k)
    \/ \E k \in TaskIds : TaskRemove(k)
    \/ \E k \in TaskIds : TaskCheckResult(k)
    \/ \E k \in TaskIds : TaskCopy(k)
    \/ \E k \in TaskIds : TaskPaste(k)

\* An invocation of _toggle_recording that may begin while the invocation of
\* the other caller is still running.
RacingToggle(t) ==
    /\ toggles < MaxRacingToggles
    /\ ToggleCheckModel(t)

Next ==
    \/ \E t \in Threads : RacingToggle(t)
    \/ Step

Spec == Init /\ [][Next]_vars

\* The behaviours in which the toggles do not overlap: _toggle_recording is
\* invoked only when no other invocation is running.  The process() threads
\* and the load thread still run concurrently with everything.
SerialToggle(t) ==
    /\ \A u \in Threads : pc[u] = "idle"
    /\ ToggleCheckModel(t)

NextSerial ==
    \/ \E t \in Threads : SerialToggle(t)
    \/ Step

SpecSerial == Init /\ [][NextSerial]_vars

\* The behaviours with a shutdown: the toggles do not overlap, the tray loop
\* ends by the Quit item or by a KeyboardInterrupt, and start() returns.
\* The load thread and the process() threads are daemon threads (l.70,
\* l.177): they end with the process.  Spec and SpecSerial are the
\* behaviours of the program up to its shutdown.
Running == mainpc # "exited"

NextQuit ==
    \/ QuitApplication
    \/ RunReturns
    \/ RunInterrupted
    \/ FinalCleanup
    \/ Running /\ (\E t \in Threads : SerialToggle(t))
    \/ Running /\ Step

SpecQuit == Init /\ [][NextQuit]_vars

----------------------------------------------------------------------------
TypeOK ==
    /\ mainpc \in {"load_spawn", "setup_tray", "setup_hotkeys", "run",
                  "stopping", "finally", "exited"}
    /\ loadpc \in {"none", "load", "set", "update", "done", "failed"}
    /\ model_loaded \in BOOLEAN
    /\ is_recording \in BOOLEAN
    /\ title \in {"NoIcon", "Loading", "Ready", "Recording"}
    /\ toggles \in 0..MaxToggles
    /\ nextTask \in 0..MaxToggles
    /\ hotkeyStops \in 0..2
    /\ recorderCleanups \in 0..2
    /\ \A t \in Threads : pc[t] \in {"idle", "t120", "t128", "t129", "t131", "t133",
                                     "t134", "t139", "t140", "t143"}
    /\ \A k \in TaskIds : task[k].pc \in {"none", "save", "transcribe", "remove",
                                          "t169", "t169_rm_failed",
                                          "copy", "paste", "done"}

----------------------------------------------------------------------------
\* Observations of the state.

\* The process() threads that have been spawned and have not finished.
TasksInFlight == {k \in TaskIds : task[k].pc \notin {"none", "done"}}

\* The positions of _stop_recording (l.139-143).
StopPath == {"t139", "t140", "t143"}

\* The phase the program is in: Recording while is_recording is set
\* (l.120), Processing while a stop is past l.139 or a process() thread
\* runs, Idle otherwise.
Phase ==
    IF is_recording THEN "Recording"
    ELSE IF TasksInFlight # {} \/ (\E t \in Threads : pc[t] \in {"t140", "t143"})
           THEN "Processing"
    ELSE "Idle"

\* Thread t calls audio_recorder.start_recording() in this step (l.131).
StartCalled(t) == pc[t] = "t131" /\ pc'[t] # "t131"

\* Thread t calls audio_recorder.stop_recording() in this step (l.143).
StopCalled(t) == pc[t] = "t143" /\ pc'[t] # "t143"

\* Thread t reads is_recording in this step (l.120).
RecordingRead(t) == pc[t] = "t120" /\ pc'[t] # "t120"

----------------------------------------------------------------------------
\* C1: every phase change is a step of Idle -> Recording -> Processing ->
\* Idle.  The rollback of a failed start (l.133) is counted as no change of
\* phase, since no session exists then.
C1_PhasePath ==
    [][\/ Phase' = Phase
       \/ <<Phase, Phase'>> \in {<<"Idle", "Recording">>,
                                 <<"Recording", "Processing">>,
                                 <<"Processing", "Idle">>}
       \/ /\ <<Phase, Phase'>> = <<"Recording", "Idle">>
          /\ \E t \in Threads : pc[t] = "t133" /\ pc'[t] = "t134"]_vars

\* C2: of two toggles running concurrently while recording only one takes
\* the stop path: the two callers are never both in _stop_recording, and a
\* recording gets one stop_recording() call and at most one process() thread.
C2_OneStopPerRecording ==
    /\ ~(\A t \in Threads : pc[t] \in StopPath)
    /\ stopsInSession <= 1
    /\ spawnsInSession <= 1

\* C3: a toggle that reads the recording state while a process() thread is
\* still running returns without doing anything.
C3_ToggleWhileProcessingIsNoOp ==
    [][\A t \in Threads :
         (TasksInFlight # {} /\ RecordingRead(t)) => pc'[t] = "idle"]_vars

\* C4: at most one process() thread is in flight.
C4_OneTaskInFlight == Cardinality(TasksInFlight) <= 1

\* C5: start_recording() and stop_recording() calls alternate, beginning
\* with start_recording(): no start while a capture is running, no stop
\* unless a capture is running.
C5_StartStopAlternate ==
    [][\A t \in Threads :
         /\ StartCalled(t) => ~capturing
         /\ StopCalled(t) => capturing]_vars

\* C6: while the model is not loaded (loading or failed) every toggle
\* returns at l.118: no caller is past the model check, nothing is being
\* recorded or processed, start_recording() has never been called, and the
\* tray title is the "Loading..." one.
C6_NotReadyToggleIsNoOp ==
    ~model_loaded =>
        /\ \A t \in Threads : pc[t] = "idle"
        /\ Phase = "Idle"
        /\ lastStart = "none"
        /\ nextTask = 0
        /\ mainpc = "run" => title = "Loading"

\* C6 witness: a toggle has been made and has returned while the model
\* failed to load.
C6_Witness ==
    /\ loadpc = "failed"
    /\ toggles > 0
    /\ \A t \in Threads : pc[t] = "idle"
    /\ title = "Loading"

\* C7: after a start_recording() call that returned failure, and until the
\* next start_recording() call, no stop_recording() call is made and no
\* process() thread is spawned.
C7_FailedStartLeavesNoSession ==
    [][lastStart = "fail" =>
         /\ \A t \in Threads : ~StopCalled(t)
         /\ nextTask' = nextTask]_vars

\* C8: a stop_recording() result without samples (None or empty) is never
\* handed to a process() thread, so nothing is saved, transcribed or
\* delivered for it.
C8_NoSamplesNoProcessing ==
    \A k \in TaskIds :
        task[k].pc \notin {"none", "save"} => task[k].audio = "Data"

\* C9: a process() thread that saved the file and whose transcription
\* raised, failed or gave empty text ends with the file removal attempted
\* and nothing delivered.
C9_FailedTranscriptionCleansUp ==
    \A k \in TaskIds :
        (task[k].pc = "done" /\ task[k].saved /\ task[k].tr \in {"raise", "fail", "empty"})
            => (task[k].removed /\ task[k].copied = NoText /\ ~task[k].pasteTried)

\* C10: what a process() thread delivers for captured samples (the text it
\* writes to the clipboard, and the text its paste inserts) is the text
\* transcribed from its own file, never that of another session.
C10_DeliversOwnText ==
    \A k \in TaskIds :
        task[k].audio = "Data" =>
            /\ task[k].copied # NoText => task[k].copied = TranscribeOut(TempPath(k))
            /\ task[k].pasted # NoText => task[k].pasted = TranscribeOut(TempPath(k))

----------------------------------------------------------------------------
\* ModelReadiness as the program holds it: model_loaded (l.35, l.64) and
\* the position of the load thread.
Readiness ==
    IF model_loaded THEN "Ready"
    ELSE IF loadpc = "failed" THEN "Failed"
    ELSE "Loading"

\* The status the tray title should show for the current state.
ExpectedTitle ==
    IF is_recording THEN "Recording"
    ELSE IF TasksInFlight # {} THEN "Processing"
    ELSE IF model_loaded THEN "Ready"
    ELSE "Loading"

\* C11: the program is not idle (is_recording clear, so that a toggle would
\* start a recording) while the stop_recording() call of the session being
\* stopped is still to come or a process() thread has not finished.
C11_NoIdleBeforeOutcome ==
    ~is_recording =>
        /\ \A t \in Threads : pc[t] \notin {"t140", "t143"}
        /\ TasksInFlight = {}

C13_StatusMatchesState ==
    (/\ mainpc = "run"
     /\ loadpc \in {"done", "failed"}
     /\ \A t \in Threads : pc[t] = "idle")
        => title = ExpectedTitle

\* C14: the readiness is Loading at startup and changes only from Loading:
\* it is set once and never reverts.
C14_ReadinessSetOnce ==
    [][/\ mainpc = "load_spawn" => Readiness = "Loading"
       /\ Readiness' # Readiness => Readiness = "Loading"]_vars

\* C14 witness: the model is loaded after a failed start, a finished
\* process() thread and a later toggle.
C14_Witness ==
    /\ model_loaded
    /\ lastStart = "fail"
    /\ \E k \in TaskIds : task[k].pc = "done"
    /\ toggles >= 3

\* C15: the caller of a toggle never executes a step of process(): the
\* stop_recording() step returns the toggle and leaves the process() thread
\* it spawns at its first statement, and every step of a process() thread
\* is a step of its own, in which no toggle moves.
C15_ToggleNeverRunsProcessing ==
    [][/\ \A t \in Threads :
            StopCalled(t) =>
                /\ pc'[t] = "idle"
                /\ \A k \in TaskIds :
                     task'[k] # task[k] =>
                         task'[k] = [NoTask EXCEPT !.pc = "save",
                                                   !.session = task'[k].session,
                                                   !.audio = task'[k].audio]
       /\ \A k \in TaskIds :
            (task[k].pc # "none" /\ task'[k] # task[k])
                => (pc' = pc /\ toggles' = toggles)]_vars

\* C15 witness: all toggles have returned while a process() thread is still
\* before the return of transcribe_file.
C15_Witness ==
    /\ \A t \in Threads : pc[t] = "idle"
    /\ \E k \in TaskIds : task[k].pc = "transcribe"

\* The delivery of a process() thread k is in order: a paste is attempted
\* only after the clipboard write, and if and only if the write succeeded
\* and the option read at l.191 was true.
DeliveryInOrder(r) ==
    /\ r.pc = "paste" => (r.copied # NoText /\ r.auto)
    /\ r.pasteTried => (r.copied # NoText /\ r.auto /\ r.pc = "done")
    /\ (r.pc = "done" /\ r.copied # NoText /\ r.auto) => r.pasteTried
    /\ r.pasted # NoText => r.pasteTried
    /\ r.auto => r.copied # NoText

\* C16: every delivery is in order, and the paste step, failed or not,
\* leaves the clipboard and the record of the write as they are and ends
\* the delivery.
C16_ClipboardThenPaste ==
    [][\A k \in TaskIds :
         /\ DeliveryInOrder(task'[k])
         /\ (task[k].pc = "paste" /\ task'[k] # task[k])
               => /\ clipboard' = clipboard
                  /\ task'[k].copied = task[k].copied
                  /\ task'[k].pc = "done"]_vars

\* C16 witness: a paste has failed and the clipboard still holds the text
\* written by that delivery.
C16_Witness ==
    \E k \in TaskIds :
        /\ task[k].pc = "done"
        /\ task[k].pasteTried
        /\ task[k].pasted = NoText
        /\ clipboard = task[k].copied
        /\ clipboard = TranscribeOut(TempPath(k))

\* C17: whether os.remove succeeded or raised, process() goes on to the
\* test of l.169 and from there to the delivery exactly when the
\* transcription succeeded with non-empty text; nothing else of the thread
\* changes.
C17_RemovalFailureSwallowed ==
    [][\A k \in TaskIds :
         /\ (task[k].pc = "remove" /\ task'[k] # task[k])
               => \E q \in {"t169", "t169_rm_failed"} :
                    task'[k] = [task[k] EXCEPT !.removed = TRUE, !.pc = q]
         /\ (task[k].pc \in {"t169", "t169_rm_failed"} /\ task'[k] # task[k])
               => task'[k] = [task[k] EXCEPT !.pc =
                                IF task[k].tr = "ok" /\ task[k].text # NoText
                                  THEN "copy" ELSE "done"]]_vars

\* C17 witness: the removal has failed after a successful transcription
\* and process() is at the test of l.169.
C17_Witness ==
    \E k \in TaskIds :
        /\ task[k].pc = "t169_rm_failed"
        /\ task[k].tr = "ok"
        /\ task[k].text = TranscribeOut(TempPath(k))

\* C18: a toggle past the model check, a set is_recording, a
\* start_recording() call or a running capture imply that the load thread
\* has set model_loaded after a successful load_model().
C18_RecordingImpliesLoaded ==
    (\/ is_recording
     \/ capturing
     \/ lastStart # "none"
     \/ \E t \in Threads : pc[t] # "idle")
        => (model_loaded /\ loadpc \in {"update", "done"})

\* C18 witness: a capture is running while the load thread has not yet
\* updated the tray title.
C18_Witness ==
    /\ is_recording
    /\ capturing
    /\ loadpc = "update"

\* C19: hotkey_manager.stop() and audio_recorder.cleanup() are each called
\* at most once.
C19_ReleasedOnce ==
    /\ hotkeyStops <= 1
    /\ recorderCleanups <= 1

====
